---------------------------- MODULE Spec2Model ----------------------------
(***************************************************************************)
(* Model of the audio feedback pass-through of src/src/main.rs: a latency  *)
(* budget converted to a sample count, a ring buffer of twice that size    *)
(* shared by a capture callback (producer) and a playback callback         *)
(* (consumer), primed with silence before the streams are built.           *)
(***************************************************************************)
EXTENDS Integers, Sequences, FiniteSets, TLC

(***************************************************************************)
(* Bounds of the model.                                                    *)
(***************************************************************************)
\* settings.latency ranges over the whole milliseconds 0..MaxLatencyMs
MaxLatencyMs == 2
\* channel counts 1..MaxChannels
MaxChannels == 2
\* longest batch a device hands to a callback
MaxBatch == 2
\* total number of samples the input device captures in a run
MaxCaptured == 4
\* total number of output slots the output device asks for in a run
MaxPlayed == 4

\* sample rates of the modelled devices (frames per second)
SampleRates == {500, 1000, 1500}

(***************************************************************************)
(* Single precision arithmetic.  A finite non-negative f32 is the record   *)
(* [m, e] standing for m * 2^e, with m = 0 or 2^23 <= m < 2^24.            *)
(***************************************************************************)
RECURSIVE Pow2(_)
Pow2(n) == IF n = 0 THEN 1 ELSE 2 * Pow2(n - 1)

F32Zero == [m |-> 0, e |-> 0]

RECURSIVE F32Normalize(_, _)
\* m < 2^24: shift left until the leading bit is bit 23 (exact)
F32Normalize(m, e) ==
    IF m = 0 THEN F32Zero
    ELSE IF m < Pow2(23) THEN F32Normalize(2 * m, e - 1)
    ELSE [m |-> m, e |-> e]

\* round to nearest, ties to even, of q + rem/den (0 <= rem < den), q < 2^24
F32RoundNearestEven(q, rem, den, e) ==
    LET up == (2 * rem > den) \/ (2 * rem = den /\ q % 2 = 1)
        r  == IF up THEN q + 1 ELSE q
    IN  IF r = Pow2(24) THEN [m |-> Pow2(23), e |-> e + 1]
        ELSE [m |-> r, e |-> e]

\* `x as f32` of an unsigned integer below 2^24 (exact)
F32FromInt(n) == F32Normalize(n, 0)

RECURSIVE F32LongDiv(_, _, _)
\* <<floor(n * 2^k / d), (n * 2^k) mod d>>, one quotient bit at a time
F32LongDiv(n, d, k) ==
    IF k = 0 THEN <<n \div d, n % d>>
    ELSE LET p == F32LongDiv(n, d, k - 1)
         IN  <<2 * p[1] + ((2 * p[2]) \div d), (2 * p[2]) % d>>

\* a / b in f32 (b > 0)
F32Div(a, b) ==
    IF a.m = 0 THEN F32Zero
    ELSE LET k  == IF a.m >= b.m THEN 23 ELSE 24
             qr == F32LongDiv(a.m, b.m, k)
         IN  F32RoundNearestEven(qr[1], qr[2], b.m, a.e - b.e - k)

\* a * b in f32; the 48-bit product is kept in 12-bit limbs
F32Mul(a, b) ==
    IF a.m = 0 \/ b.m = 0 THEN F32Zero
    ELSE LET B   == Pow2(12)
             a1  == a.m \div B
             a0  == a.m % B
             b1  == b.m \div B
             b0  == b.m % B
             low == a0 * b0
             mid == a1 * b0 + a0 * b1 + (low \div B)
             l0  == low % B
             l1  == mid % B
             hi  == a1 * b1 + (mid \div B)
         IN  IF hi >= Pow2(23)
             THEN F32RoundNearestEven(hi, l1 * B + l0, Pow2(24), a.e + b.e + 24)
             ELSE F32RoundNearestEven(2 * hi + (l1 \div Pow2(11)),
                                      (l1 % Pow2(11)) * B + l0, Pow2(23),
                                      a.e + b.e + 23)

\* `x as usize` of a finite non-negative f32: truncation toward zero
F32AsUsize(x) ==
    IF x.e >= 0 THEN x.m * Pow2(x.e)
    ELSE IF x.e <= -24 THEN 0
    ELSE x.m \div Pow2(-x.e)


(***************************************************************************)
(* State.                                                                  *)
(***************************************************************************)
VARIABLES
    latency,            \* settings.latency, in whole milliseconds
    sample_rate,        \* config.sample_rate.0
    channels,           \* config.channels
    pc,                 \* position of main
    latency_samples,    \* the local of line 108
    capacity,           \* capacity of the ring (the argument of HeapRb::new)
    storage,            \* backing storage of the ring: slot -> sample
    read,               \* read cursor, advanced by the consumer handle
    write,              \* write cursor, advanced by the producer handle
    prime_i,            \* iterations of the priming loop done
    input_stream,       \* "none", "built", "playing" or "dropped"
    output_stream,
    in_pc,              \* position of input_data_fn
    in_data,            \* the captured batch (data: &[f32])
    in_i,               \* index of the sample the loop is at
    output_fell_behind,
    out_pc,             \* position of output_data_fn
    out_data,           \* the output batch (data: &mut [f32])
    out_i,              \* index of the slot the loop is at
    out_val,            \* the sample try_pop has read and not yet returned
    input_fell_behind,
    n_captured,         \* samples handed to input_data_fn so far
    n_played,           \* slots handed to output_data_fn so far
    pushed,             \* history: samples of the successful pushes, in order
    popped,             \* history: samples of the successful pops, in order
    dropped,            \* history: samples whose push failed
    overruns,           \* history: "output stream fell behind" lines printed
    underruns,          \* history: "input stream fell behind" lines printed
    in_fails,           \* history: failed pushes of the current capture batch
    out_fails,          \* history: failed pops of the current playback batch
    output,             \* history: <<value, origin>> of every output slot written
    burst               \* history: the push attempts since the ring was last
                        \* empty, as <<sample, accepted>>, while no pop has
                        \* completed since (ok)

config_vars == <<latency, sample_rate, channels>>
ring_vars   == <<capacity, storage, read, write>>
main_vars   == <<pc, latency_samples, prime_i, input_stream, output_stream>>
in_vars     == <<in_pc, in_data, in_i, output_fell_behind, n_captured, dropped,
                 overruns, in_fails>>
out_vars    == <<out_pc, out_data, out_i, out_val, input_fell_behind, n_played,
                 popped, underruns, out_fails, output>>
vars == <<config_vars, ring_vars, main_vars, in_vars, out_vars, pushed, burst>>

\* content of a slot of the storage, or of the output batch, nothing has written
Uninit == 0 - 1

(***************************************************************************)
(* The latency budget, lines 107-108.                                      *)
(***************************************************************************)
\* (settings.latency / 1_000.0) * config.sample_rate.0 as f32
latency_frames(L, R) ==
    F32Mul(F32Div(F32FromInt(L), F32FromInt(1000)), F32FromInt(R))

\* `x.round() as usize`: halves go away from zero
F32RoundAsUsize(x) ==
    IF x.e >= 0 THEN x.m * Pow2(x.e)
    ELSE IF x.e <= -25 THEN 0
    ELSE (x.m + Pow2(-x.e - 1)) \div Pow2(-x.e)

\* a latency budget that rounds the frames instead of truncating them
latency_samples_rounded(L, R, C) == F32RoundAsUsize(latency_frames(L, R)) * C

\* latency_frames as usize * config.channels as usize
latency_samples_of(L, R, C) == F32AsUsize(latency_frames(L, R)) * C

\* a ring of half the latency instead of twice the latency
RingCapacityHalved(n) == n \div 2

\* the argument of HeapRb::new, line 111
RingCapacity(n) == n * 2

(***************************************************************************)
(* The ring buffer: two cursors counted modulo 2 * capacity over capacity  *)
(* slots, so that a full ring and an empty one differ.                     *)
(***************************************************************************)
Occupancy(r, w, cap) == IF cap = 0 THEN 0 ELSE (w - r + 2 * cap) % (2 * cap)

\* a full check that lets one push too many through (on a ring that has slots)
IsFullOffByOne(r, w, cap) == cap = 0 \/ Occupancy(r, w, cap) > cap

IsFull(r, w, cap) == Occupancy(r, w, cap) = cap

\* an empty check that never reports an empty ring
IsEmptyOffByOne(r, w, cap) == Occupancy(r, w, cap) < 0

IsEmpty(r, w, cap) == Occupancy(r, w, cap) = 0

Slot(idx, cap) == idx % cap

Advance(idx, cap) == (idx + 1) % (2 * cap)

\* a device that keeps calling the callback of a stream that was dropped
LiveEvenDropped(stream) == stream \in {"built", "playing", "dropped"}

\* the device calls the callback of a stream from build to drop
Live(stream) == stream \in {"built", "playing"}

\* the burst history after a push attempt on the sample v
BurstAdd(v, accepted) ==
    IF burst.ok THEN [burst EXCEPT !.tries = Append(@, <<v, accepted>>)]
    ELSE burst

\* the burst history after a pop that left n samples in the ring
BurstAfterPop(n) == [ok |-> n = 0, tries |-> <<>>]

(***************************************************************************)
(* Initial state: main has the settings and the stream configuration.      *)
(***************************************************************************)
Init ==
    /\ latency \in 0..MaxLatencyMs
    /\ sample_rate \in SampleRates
    /\ channels \in 1..MaxChannels
    /\ pc = "config"
    /\ latency_samples = 0
    /\ capacity = 0
    /\ storage = <<>>
    /\ read = 0
    /\ write = 0
    /\ prime_i = 0
    /\ input_stream = "none"
    /\ output_stream = "none"
    /\ in_pc = "idle"
    /\ in_data = <<>>
    /\ in_i = 1
    /\ output_fell_behind = FALSE
    /\ out_pc = "idle"
    /\ out_data = <<>>
    /\ out_i = 1
    /\ out_val = Uninit
    /\ input_fell_behind = FALSE
    /\ n_captured = 0
    /\ n_played = 0
    /\ pushed = <<>>
    /\ popped = <<>>
    /\ dropped = <<>>
    /\ overruns = 0
    /\ underruns = 0
    /\ in_fails = 0
    /\ out_fails = 0
    /\ output = <<>>
    /\ burst = [ok |-> TRUE, tries |-> <<>>]

(***************************************************************************)
(* main, lines 106-119: latency budget, ring, priming.                     *)
(***************************************************************************)
ComputeLatency ==
    /\ pc = "config"
    /\ latency_samples' = latency_samples_of(latency, sample_rate, channels)
    /\ pc' = "new_ring"
    /\ UNCHANGED <<config_vars, ring_vars, prime_i, input_stream, output_stream,
                   in_vars, out_vars, pushed, burst>>

\* HeapRb::new(latency_samples * 2) and split.  A ring of no slots is either
\* refused by the constructor (a panic) or built with capacity zero.
RingNew ==
    /\ pc = "new_ring"
    /\ LET cap == RingCapacity(latency_samples)
       IN  /\ capacity' = cap
           /\ storage' = [s \in 0..(cap - 1) |-> Uninit]
           /\ \/ pc' = "priming"
              \/ cap = 0 /\ pc' = "panic_new"
    /\ read' = 0
    /\ write' = 0
    /\ prime_i' = 0
    /\ UNCHANGED <<config_vars, latency_samples, input_stream, output_stream,
                   in_vars, out_vars, pushed, burst>>

\* a priming loop that fills the ring with a sample that is not silence
PrimeSampleOne == Pow2(0)

\* the sample the priming loop pushes, line 118
PrimeSample == 0

\* one iteration of the loop of lines 115-119: producer.try_push(0.0).unwrap()
PrimePush ==
    /\ pc = "priming"
    /\ prime_i < latency_samples
    /\ IF IsFull(read, write, capacity)
       THEN /\ pc' = "panic_unwrap"
            /\ burst' = BurstAdd(PrimeSample, FALSE)
            /\ UNCHANGED <<ring_vars, prime_i, pushed>>
       ELSE /\ storage' = [storage EXCEPT ![Slot(write, capacity)] = PrimeSample]
            /\ write' = Advance(write, capacity)
            /\ pushed' = Append(pushed, PrimeSample)
            /\ burst' = BurstAdd(PrimeSample, TRUE)
            /\ prime_i' = prime_i + 1
            /\ UNCHANGED <<pc, capacity, read>>
    /\ UNCHANGED <<config_vars, latency_samples, input_stream, output_stream,
                   in_vars, out_vars>>

\* a priming loop that stops one push short
PrimeDoneEarly ==
    /\ pc = "priming"
    /\ prime_i >= latency_samples - 1
    /\ pc' = "build_input"
    /\ UNCHANGED <<config_vars, ring_vars, latency_samples, prime_i,
                   input_stream, output_stream, in_vars, out_vars, pushed, burst>>

\* the loop of lines 115-119 has run latency_samples times
PrimeDone ==
    /\ pc = "priming"
    /\ prime_i >= latency_samples
    /\ pc' = "build_input"
    /\ UNCHANGED <<config_vars, ring_vars, latency_samples, prime_i,
                   input_stream, output_stream, in_vars, out_vars, pushed, burst>>

(***************************************************************************)
(* main, lines 154-172: the streams are built, played and dropped.  A      *)
(* stream may run its callback from the moment it is built (the host       *)
(* decides) until it is dropped; dropping a stream waits for the callback  *)
(* in flight.  A `?` that fails returns from main, which drops the streams *)
(* built so far, the later one first.                                      *)
(***************************************************************************)
BuildInput ==
    /\ pc = "build_input"
    /\ \/ input_stream' = "built" /\ pc' = "build_output"
       \/ input_stream' = input_stream /\ pc' = "unwind"
    /\ UNCHANGED <<config_vars, ring_vars, latency_samples, prime_i,
                   output_stream, in_vars, out_vars, pushed, burst>>

BuildOutput ==
    /\ pc = "build_output"
    /\ \/ output_stream' = "built" /\ pc' = "play_input"
       \/ output_stream' = output_stream /\ pc' = "unwind"
    /\ UNCHANGED <<config_vars, ring_vars, latency_samples, prime_i,
                   input_stream, in_vars, out_vars, pushed, burst>>

PlayInput ==
    /\ pc = "play_input"
    /\ \/ input_stream' = "playing" /\ pc' = "play_output"
       \/ input_stream' = input_stream /\ pc' = "unwind"
    /\ UNCHANGED <<config_vars, ring_vars, latency_samples, prime_i,
                   output_stream, in_vars, out_vars, pushed, burst>>

PlayOutput ==
    /\ pc = "play_output"
    /\ \/ output_stream' = "playing" /\ pc' = "sleep"
       \/ output_stream' = output_stream /\ pc' = "unwind"
    /\ UNCHANGED <<config_vars, ring_vars, latency_samples, prime_i,
                   input_stream, in_vars, out_vars, pushed, burst>>

\* std::thread::sleep(3 s) returns
Sleep ==
    /\ pc = "sleep"
    /\ pc' = "drop_input"
    /\ UNCHANGED <<config_vars, ring_vars, latency_samples, prime_i,
                   input_stream, output_stream, in_vars, out_vars, pushed, burst>>

DropInput ==
    /\ pc = "drop_input"
    /\ in_pc = "idle"
    /\ input_stream' = "dropped"
    /\ pc' = "drop_output"
    /\ UNCHANGED <<config_vars, ring_vars, latency_samples, prime_i,
                   output_stream, in_vars, out_vars, pushed, burst>>

DropOutput ==
    /\ pc = "drop_output"
    /\ out_pc = "idle"
    /\ output_stream' = "dropped"
    /\ pc' = "done"
    /\ UNCHANGED <<config_vars, ring_vars, latency_samples, prime_i,
                   input_stream, in_vars, out_vars, pushed, burst>>

Unwind ==
    /\ pc = "unwind"
    /\ IF Live(output_stream)
       THEN /\ out_pc = "idle"
            /\ output_stream' = "dropped"
            /\ UNCHANGED <<pc, input_stream>>
       ELSE IF Live(input_stream)
       THEN /\ in_pc = "idle"
            /\ input_stream' = "dropped"
            /\ UNCHANGED <<pc, output_stream>>
       ELSE /\ pc' = "failed"
            /\ UNCHANGED <<input_stream, output_stream>>
    /\ UNCHANGED <<config_vars, ring_vars, latency_samples, prime_i,
                   in_vars, out_vars, pushed, burst>>

(***************************************************************************)
(* input_data_fn, lines 121-131.  try_push is three steps: the full check  *)
(* (which loads the read cursor), the write of the slot, the advance of    *)
(* the write cursor.                                                       *)
(***************************************************************************)
\* the device calls input_data_fn with a batch of n newly captured samples;
\* the k-th sample captured in the run has the value k
InputBatch(n) ==
    /\ Live(input_stream)
    /\ in_pc = "idle"
    /\ in_data' = [k \in 1..n |-> n_captured + k]
    /\ n_captured' = n_captured + n
    /\ output_fell_behind' = FALSE
    /\ in_i' = 1
    /\ in_fails' = 0
    /\ in_pc' = "loop"
    /\ UNCHANGED <<config_vars, ring_vars, main_vars, out_vars, pushed, burst,
                   dropped, overruns>>

InputCall ==
    \E n \in 0..MaxBatch :
        /\ n_captured + n <= MaxCaptured
        /\ InputBatch(n)

\* a failed push that forgets to set the flag
PushFailedFlagKept(flag) == flag

\* the flag the loop body sets when try_push returns Err, line 125
PushFailedFlag(flag) == TRUE

\* a loop body that pushes over the oldest sample when the ring is full
PushCheckOverwrite ==
    /\ in_pc = "loop"
    /\ in_i <= Len(in_data)
    /\ IF capacity = 0
       THEN /\ output_fell_behind' = TRUE
            /\ dropped' = Append(dropped, in_data[in_i])
            /\ in_fails' = in_fails + 1
            /\ in_i' = in_i + 1
            /\ burst' = BurstAdd(in_data[in_i], FALSE)
            /\ UNCHANGED <<in_pc, ring_vars, pushed>>
       ELSE IF IsFull(read, write, capacity)
       THEN /\ storage' = [storage EXCEPT ![Slot(write, capacity)] = in_data[in_i]]
            /\ read' = Advance(read, capacity)
            /\ write' = Advance(write, capacity)
            /\ pushed' = Append(pushed, in_data[in_i])
            /\ in_i' = in_i + 1
            /\ burst' = BurstAdd(in_data[in_i], TRUE)
            /\ UNCHANGED <<in_pc, capacity, output_fell_behind, dropped, in_fails>>
       ELSE /\ in_pc' = "push_write"
            /\ UNCHANGED <<output_fell_behind, dropped, in_fails, in_i,
                           ring_vars, pushed, burst>>
    /\ UNCHANGED <<config_vars, main_vars, out_vars, in_data, n_captured,
                   overruns>>

\* a loop body that tries the same sample again when the ring is full
PushCheckRetry ==
    /\ in_pc = "loop"
    /\ in_i <= Len(in_data)
    /\ IF IsFull(read, write, capacity)
       THEN /\ output_fell_behind' = PushFailedFlag(output_fell_behind)
            /\ UNCHANGED <<in_pc, in_i, dropped, in_fails, burst>>
       ELSE /\ in_pc' = "push_write"
            /\ UNCHANGED <<output_fell_behind, dropped, in_fails, in_i, burst>>
    /\ UNCHANGED <<config_vars, ring_vars, main_vars, out_vars, pushed,
                   in_data, n_captured, overruns>>

PushCheck ==
    /\ in_pc = "loop"
    /\ in_i <= Len(in_data)
    /\ IF IsFull(read, write, capacity)
       THEN /\ output_fell_behind' = PushFailedFlag(output_fell_behind)
            /\ dropped' = Append(dropped, in_data[in_i])
            /\ in_fails' = in_fails + 1
            /\ in_i' = in_i + 1
            /\ burst' = BurstAdd(in_data[in_i], FALSE)
            /\ UNCHANGED in_pc
       ELSE /\ in_pc' = "push_write"
            /\ UNCHANGED <<output_fell_behind, dropped, in_fails, in_i, burst>>
    /\ UNCHANGED <<config_vars, ring_vars, main_vars, out_vars, pushed,
                   in_data, n_captured, overruns>>

PushWrite ==
    /\ in_pc = "push_write"
    /\ storage' = [storage EXCEPT ![Slot(write, capacity)] = in_data[in_i]]
    /\ in_pc' = "push_advance"
    /\ UNCHANGED <<config_vars, capacity, read, write, main_vars, out_vars,
                   pushed, burst, in_data, in_i, output_fell_behind,
                   n_captured, dropped, overruns, in_fails>>

\* a loop that steps over the sample after each one it has pushed
PushAdvanceSkip ==
    /\ in_pc = "push_advance"
    /\ write' = Advance(write, capacity)
    /\ pushed' = Append(pushed, in_data[in_i])
    /\ burst' = BurstAdd(in_data[in_i], TRUE)
    /\ in_i' = in_i + 2
    /\ in_pc' = "loop"
    /\ UNCHANGED <<config_vars, capacity, storage, read, main_vars, out_vars,
                   in_data, output_fell_behind, n_captured, dropped, overruns,
                   in_fails>>

PushAdvance ==
    /\ in_pc = "push_advance"
    /\ write' = Advance(write, capacity)
    /\ pushed' = Append(pushed, in_data[in_i])
    /\ burst' = BurstAdd(in_data[in_i], TRUE)
    /\ in_i' = in_i + 1
    /\ in_pc' = "loop"
    /\ UNCHANGED <<config_vars, capacity, storage, read, main_vars, out_vars,
                   in_data, output_fell_behind, n_captured, dropped, overruns,
                   in_fails>>

\* a report that is printed whatever the flag says
OverrunLinesAlways(flag) == 1

\* lines printed to stderr after the loop, lines 128-130
OverrunLines(flag) == IF flag THEN 1 ELSE 0

InputReturn ==
    /\ in_pc = "loop"
    /\ in_i > Len(in_data)
    /\ overruns' = overruns + OverrunLines(output_fell_behind)
    /\ in_pc' = "idle"
    /\ in_data' = <<>>
    /\ in_i' = 1
    /\ output_fell_behind' = FALSE
    /\ in_fails' = 0
    /\ UNCHANGED <<config_vars, ring_vars, main_vars, out_vars, pushed, burst,
                   n_captured, dropped>>

(***************************************************************************)
(* output_data_fn, lines 133-147.  try_pop is three steps: the empty check *)
(* (which loads the write cursor), the read of the slot, the advance of    *)
(* the read cursor.                                                        *)
(***************************************************************************)
\* the device calls output_data_fn with a batch of n slots to fill
OutputBatch(n) ==
    /\ Live(output_stream)
    /\ out_pc = "idle"
    /\ out_data' = [k \in 1..n |-> Uninit]
    /\ n_played' = n_played + n
    /\ input_fell_behind' = FALSE
    /\ out_i' = 1
    /\ out_fails' = 0
    /\ out_pc' = "loop"
    /\ UNCHANGED <<config_vars, ring_vars, main_vars, in_vars, pushed, burst,
                   out_val, popped, underruns, output>>

OutputCall ==
    \E n \in 0..MaxBatch :
        /\ n_played + n <= MaxPlayed
        /\ OutputBatch(n)

\* a None arm that leaves the slot of the output batch as it was
SilenceUnwritten == Uninit

\* the value of the match arm of try_pop() = None, lines 138-141
Silence == 0

\* a None arm that forgets to set the flag
PopFailedFlagKept(flag) == flag

\* the flag the None arm sets, line 139
PopFailedFlag(flag) == TRUE

PopCheck ==
    /\ out_pc = "loop"
    /\ out_i <= Len(out_data)
    /\ IF IsEmpty(read, write, capacity)
       THEN /\ input_fell_behind' = PopFailedFlag(input_fell_behind)
            /\ out_data' = [out_data EXCEPT ![out_i] = Silence]
            /\ output' = Append(output, <<Silence, "silence">>)
            /\ out_fails' = out_fails + 1
            /\ out_i' = out_i + 1
            /\ UNCHANGED out_pc
       ELSE /\ out_pc' = "pop_read"
            /\ UNCHANGED <<input_fell_behind, out_data, out_fails, out_i,
                           output>>
    /\ UNCHANGED <<config_vars, ring_vars, main_vars, in_vars, pushed, burst,
                   out_val, n_played, popped, underruns>>

PopRead ==
    /\ out_pc = "pop_read"
    /\ out_val' = storage[Slot(read, capacity)]
    /\ out_pc' = "pop_advance"
    /\ UNCHANGED <<config_vars, ring_vars, main_vars, in_vars, pushed, burst,
                   out_data, out_i, input_fell_behind, n_played, popped,
                   underruns, out_fails, output>>

\* a Some arm that writes silence instead of the sample
SomeArmSilence(s) == 0

\* the slot of the output batch gets the sample of the Some arm, line 137
SomeArm(s) == s

\* a pop that rewinds both cursors to the start when it empties the ring
PopAdvanceRewind ==
    /\ out_pc = "pop_advance"
    /\ IF Occupancy(read, write, capacity) = 1
       THEN read' = 0 /\ write' = 0
       ELSE read' = Advance(read, capacity) /\ write' = write
    /\ popped' = Append(popped, out_val)
    /\ out_data' = [out_data EXCEPT ![out_i] = SomeArm(out_val)]
    /\ output' = Append(output, <<SomeArm(out_val), "pop">>)
    /\ burst' = BurstAfterPop(Len(pushed) - Len(popped) - 1)
    /\ out_val' = Uninit
    /\ out_i' = out_i + 1
    /\ out_pc' = "loop"
    /\ UNCHANGED <<config_vars, capacity, storage, main_vars, in_vars,
                   pushed, input_fell_behind, n_played, underruns, out_fails>>

PopAdvance ==
    /\ out_pc = "pop_advance"
    /\ read' = Advance(read, capacity)
    /\ popped' = Append(popped, out_val)
    /\ out_data' = [out_data EXCEPT ![out_i] = SomeArm(out_val)]
    /\ output' = Append(output, <<SomeArm(out_val), "pop">>)
    /\ burst' = BurstAfterPop(Len(pushed) - Len(popped) - 1)
    /\ out_val' = Uninit
    /\ out_i' = out_i + 1
    /\ out_pc' = "loop"
    /\ UNCHANGED <<config_vars, capacity, storage, write, main_vars, in_vars,
                   pushed, input_fell_behind, n_played, underruns, out_fails>>

\* lines printed to stderr after the loop, lines 144-146
UnderrunLines(flag) == IF flag THEN 1 ELSE 0

OutputReturn ==
    /\ out_pc = "loop"
    /\ out_i > Len(out_data)
    /\ underruns' = underruns + UnderrunLines(input_fell_behind)
    /\ out_pc' = "idle"
    /\ out_data' = <<>>
    /\ out_i' = 1
    /\ input_fell_behind' = FALSE
    /\ out_fails' = 0
    /\ UNCHANGED <<config_vars, ring_vars, main_vars, in_vars, pushed, burst,
                   out_val, n_played, popped, output>>

(***************************************************************************)
(* The program.                                                            *)
(***************************************************************************)
Next ==
    \/ ComputeLatency
    \/ RingNew
    \/ PrimePush
    \/ PrimeDone
    \/ BuildInput
    \/ BuildOutput
    \/ PlayInput
    \/ PlayOutput
    \/ Sleep
    \/ DropInput
    \/ DropOutput
    \/ Unwind
    \/ InputCall
    \/ PushCheck
    \/ PushWrite
    \/ PushAdvance
    \/ InputReturn
    \/ OutputCall
    \/ PopCheck
    \/ PopRead
    \/ PopAdvance
    \/ OutputReturn

Spec == Init /\ [][Next]_vars

\* The output device keeps calling output_data_fn with slots to fill for as
\* long as the output stream lives, and a callback that was called runs to
\* its return.
PlaybackFairness ==
    /\ SF_vars(OutputCall /\ out_data' # <<>>)
    /\ WF_vars(PopCheck)
    /\ WF_vars(PopRead)
    /\ WF_vars(PopAdvance)
    /\ WF_vars(OutputReturn)

LiveSpec == Spec /\ PlaybackFairness

(***************************************************************************)
(* Properties.                                                             *)
(***************************************************************************)
Range(seq) == {seq[i] : i \in 1..Len(seq)}

IsPrefix(s, t) == Len(s) <= Len(t) /\ \A i \in 1..Len(s) : s[i] = t[i]

\* the samples in the ring, oldest first, by the histories
InFlight == Len(pushed) - Len(popped)

\* the slots between the read cursor and the write cursor
OccupiedSlots ==
    {Slot((read + k) % (2 * capacity), capacity) :
        k \in 0..(Occupancy(read, write, capacity) - 1)}

\* try_push is between its full check and the advance of the write cursor
ProducerInSlot == in_pc \in {"push_write", "push_advance"}

\* try_pop is between its empty check and the advance of the read cursor
ConsumerInSlot == out_pc \in {"pop_read", "pop_advance"}

\* C1: in every reachable state the occupancy of the queue is the number of
\* successful pushes minus the number of successful pops, and it lies between
\* zero and the capacity.
C1_OccupancyIsPushesMinusPops ==
    /\ Occupancy(read, write, capacity) = InFlight
    /\ 0 <= InFlight
    /\ InFlight <= capacity

\* C1 witness: a queue that is full again after pops and capture pushes.
C1_Witness ==
    /\ capacity > 0
    /\ InFlight = capacity
    /\ Len(popped) > 0
    /\ Len(pushed) > prime_i

PoppedOutputs == SelectSeq(output, LAMBDA o : o[2] = "pop")

\* C2: the popped samples are always a prefix of the pushed samples, the
\* pushed samples are the priming zeros followed by the accepted captured
\* samples in capture order (a dropped sample is only left out), and the
\* output is the popped samples in pop order with zeros put in between.
C2_NoReordering ==
    /\ IsPrefix(popped, pushed)
    /\ \A i \in 1..Len(pushed) :
          IF i <= prime_i THEN pushed[i] = 0
          ELSE /\ pushed[i] \in 1..n_captured
               /\ pushed[i] \notin Range(dropped)
               /\ i > prime_i + 1 => pushed[i - 1] < pushed[i]
    /\ Len(PoppedOutputs) = Len(popped)
    /\ \A i \in 1..Len(popped) : PoppedOutputs[i][1] = popped[i]
    /\ \A i \in 1..Len(output) : output[i][2] = "silence" => output[i][1] = 0

\* C2 witness: an overrun and an underrun have happened and a captured sample
\* pushed after the dropped one has been delivered.
C2_Witness ==
    /\ Len(dropped) > 0
    /\ \E i \in 1..Len(output) : output[i][2] = "silence"
    /\ \E i \in 1..Len(popped) : popped[i] > dropped[1]

\* C3: the producer never writes a slot that holds a sample the consumer has
\* not finished reading, the consumer only reads a slot whose write is
\* complete, and the two are never in the same slot at the same time.
C3_NoSlotRace ==
    /\ ProducerInSlot => Slot(write, capacity) \notin OccupiedSlots
    /\ ConsumerInSlot =>
          /\ Occupancy(read, write, capacity) >= 1
          /\ InFlight >= 1
          /\ storage[Slot(read, capacity)] = pushed[Len(popped) + 1]
    /\ out_pc = "pop_advance" => out_val = pushed[Len(popped) + 1]
    /\ (ProducerInSlot /\ ConsumerInSlot) =>
          Slot(write, capacity) # Slot(read, capacity)

\* C3 witness: a push and a pop are in flight together on the smallest ring,
\* with the cursors wrapped.
C3_Witness ==
    /\ in_pc = "push_write"
    /\ out_pc = "pop_read"
    /\ capacity = 2
    /\ write < read

\* the samples held by the slots of the backing storage
Stored == {storage[k] : k \in DOMAIN storage}

\* a dropped sample is in no place from which it could reach the playback
DroppedNowhere ==
    \A d \in Range(dropped) :
        /\ d \notin Stored
        /\ d \notin Range(pushed)
        /\ d \notin Range(popped)
        /\ d \notin Range(out_data)
        /\ d # out_val
        /\ \A i \in 1..Len(output) : output[i][1] # d

\* a step of input_data_fn at a sample, taken with the queue at capacity
FullPushStep ==
    (/\ in_pc = "loop"
     /\ in_i <= Len(in_data)
     /\ InFlight = capacity
     /\ <<in_pc, in_i>>' # <<in_pc, in_i>>)
    => (/\ in_pc' = "loop"
        /\ in_i' = in_i + 1
        /\ UNCHANGED <<capacity, storage, read, write, pushed>>
        /\ dropped' = Append(dropped, in_data[in_i]))

\* C4: a try_push on a queue at capacity fails and leaves the stored samples,
\* both cursors and the occupancy as they were; the sample is dropped: it is
\* stored nowhere and never delivered to the playback.
C4_FullPushDropsSample == []DroppedNowhere /\ [][FullPushStep]_vars

\* C4 witness: a sample was dropped and everything pushed since has been
\* delivered.
C4_Witness ==
    /\ capacity > 0
    /\ Len(dropped) > 0
    /\ InFlight = 0
    /\ \E i \in 1..Len(popped) : popped[i] > dropped[1]

\* a step of output_data_fn at a slot, taken with the queue empty
EmptyPopStep ==
    (/\ out_pc = "loop"
     /\ out_i <= Len(out_data)
     /\ InFlight = 0
     /\ <<out_pc, out_i>>' # <<out_pc, out_i>>)
    => (/\ out_pc' = "loop"
        /\ out_i' = out_i + 1
        /\ UNCHANGED <<capacity, storage, read, write, pushed, popped, out_val>>
        /\ out_data' = [out_data EXCEPT ![out_i] = 0])

\* a step of output_data_fn that finishes a slot with a sample in the queue
SomePopStep ==
    (/\ out_i' = out_i + 1
     /\ InFlight > 0)
    => (/\ popped' = Append(popped, pushed[Len(popped) + 1])
        /\ out_data' = [out_data EXCEPT ![out_i] = pushed[Len(popped) + 1]])

\* the slots output_data_fn has passed are all written
PassedSlotsWritten ==
    \A k \in 1..Len(out_data) : k < out_i => out_data[k] # Uninit

\* C5: a try_pop on an empty queue fails, returns no sample and leaves the queue
\* as it was, and output_data_fn writes exactly zero into the slot; in every
\* other case the slot gets exactly the sample that was popped.
C5_EmptyPopWritesZero ==
    []PassedSlotsWritten /\ [][EmptyPopStep /\ SomePopStep]_vars

\* C5 witness: a batch whose first slot was an underrun and whose second slot
\* got a captured sample.
C5_Witness ==
    /\ out_pc = "loop"
    /\ out_i = 3
    /\ out_fails = 1
    /\ out_data[1] = 0
    /\ out_data[2] > 0

\* C6: every priming push finds room in the ring of twice latency_samples
\* slots, so the unwrap of line 118 never panics.
C6_PrimingPushesSucceed ==
    /\ pc # "panic_unwrap"
    /\ pc = "priming" =>
          /\ Len(pushed) = prime_i
          /\ prime_i < latency_samples => InFlight < capacity

\* C6 witness: priming has pushed all six samples of the longest latency.
C6_Witness ==
    /\ pc = "build_input"
    /\ latency_samples = 6
    /\ prime_i = latency_samples
    /\ InFlight = latency_samples

\* round(L / 1000 * R) in exact arithmetic, halves away from zero
RoundedFrames(L, R) == (2 * L * R + 1000) \div 2000

\* the whole part of the single precision value of (L / 1000) * R
TruncatedFrames(L, R) == F32AsUsize(latency_frames(L, R))

\* the ring after priming holds n zeros, oldest at slot 0, in 2 * n slots
PrimedWith(n) ==
    /\ InFlight = n
    /\ Occupancy(read, write, capacity) = n
    /\ pushed = [i \in 1..n |-> 0]
    /\ popped = <<>>
    /\ \A k \in 0..(n - 1) : storage[k] = 0
    /\ capacity = 2 * n

\* C7 as stated: after priming the queue holds round(L/1000 x R) x C zeros in
\* twice as many slots.
C7_PrimedWithRoundedFrames ==
    pc = "build_input" =>
        PrimedWith(RoundedFrames(latency, sample_rate) * channels)

\* C7 amended: after priming the queue holds trunc(f) x C zeros in twice as
\* many slots, f being the single precision value of (L/1000) x R and trunc
\* dropping its fractional part.
C7_PrimedWithTruncatedFrames ==
    pc = "build_input" =>
        PrimedWith(TruncatedFrames(latency, sample_rate) * channels)

\* C7 witness: priming is over for a latency of 1.5 frames on two channels.
C7_Witness ==
    /\ pc = "build_input"
    /\ latency = 1
    /\ sample_rate = 1500
    /\ channels = 2
    /\ InFlight = 2

\* C8 as stated, its first half: from the construction of the ring on, the
\* capacity it was constructed with is strictly greater than latency_samples.
C8_CapacityExceedsLatency ==
    pc \notin {"config", "new_ring"} => capacity > latency_samples

\* the failed pushes of the capture batch in_data
BatchOverruns ==
    Cardinality({k \in 1..Len(in_data) : in_data[k] \in Range(dropped)})

\* C9: input_data_fn prints exactly one overrun line when it returns from a
\* batch in which at least one push failed, none when every push succeeded,
\* and no other step prints one.
C9_OneOverrunSignalPerBatch ==
    [][IF in_pc = "loop" /\ in_pc' = "idle"
       THEN overruns' = overruns + (IF BatchOverruns > 0 THEN 1 ELSE 0)
       ELSE overruns' = overruns]_vars

\* C9 witness: one line was printed for a batch in which two pushes failed on
\* a ring that has slots.
C9_Witness ==
    /\ capacity > 0
    /\ in_pc = "idle"
    /\ overruns = 1
    /\ Len(dropped) = 2
    /\ dropped[2] = dropped[1] + 1
    /\ n_captured > dropped[2]

\* the failed pops of the playback batch out_data, whose out_i - 1 slots
\* written so far are the last entries of the output history
BatchUnderruns ==
    Cardinality({k \in (Len(output) - out_i + 2)..Len(output) :
                    output[k][2] = "silence"})

\* C10: output_data_fn prints exactly one underrun line when it returns from a
\* batch in which at least one pop failed, none when every pop succeeded, and
\* no other step prints one.
C10_OneUnderrunSignalPerBatch ==
    [][IF out_pc = "loop" /\ out_pc' = "idle"
       THEN underruns' = underruns + (IF BatchUnderruns > 0 THEN 1 ELSE 0)
       ELSE underruns' = underruns]_vars

\* C10 witness: one line was printed for a batch in which two pops failed on
\* a ring that has slots, and a later batch has popped a sample.
C10_Witness ==
    /\ capacity > 0
    /\ out_pc = "idle"
    /\ underruns = 1
    /\ Len(output) >= 3
    /\ \E k \in 1..(Len(output) - 2) :
          /\ output[k][2] = "silence"
          /\ output[k + 1][2] = "silence"
          /\ output[k + 2][2] = "pop"
          /\ \A j \in 1..Len(output) :
                output[j][2] = "silence" => j \in {k, k + 1}

\* the most samples priming pushes, over the configurations of Init
MaxPrimed ==
    LET S == {latency_samples_of(L, R, C) :
                 L \in 0..MaxLatencyMs, R \in SampleRates, C \in 1..MaxChannels}
    IN  CHOOSE m \in S : \A x \in S : x <= m

\* the captured samples input_data_fn has not reached yet
PendingCapture == {in_data[k] : k \in {j \in 1..Len(in_data) : j >= in_i}}

\* every captured sample is pending, pushed or dropped
CapturedAccounted ==
    (1..n_captured) = PendingCapture \cup Range(dropped)
                        \cup (Range(pushed) \ {0})

\* a sample is dropped only by a step taken with the queue at capacity
DropOnlyAtCapacity == dropped' # dropped => InFlight = capacity

\* the output device has stopped asking for samples: the stream is not
\* running, or the run has had all the slots it asks for
PlaybackEnded ==
    /\ out_pc = "idle"
    /\ ~Live(output_stream) \/ n_played = MaxPlayed

BurstSlot(k) == storage[Slot((read + k - 1) % (2 * capacity), capacity)]

\* of a burst of pushes into the empty ring with no pop in between, the first
\* capacity attempts are accepted and lie in the ring in push order from the
\* read cursor, and every later attempt is rejected
BurstFillsThenFails ==
    burst.ok =>
        /\ Occupancy(read, write, capacity)
              = Cardinality({k \in 1..Len(burst.tries) : burst.tries[k][2]})
        /\ \A k \in 1..Len(burst.tries) :
              /\ burst.tries[k][2] <=> k <= capacity
              /\ k <= capacity => BurstSlot(k) = burst.tries[k][1]

\* a rejected capture push has raised the flag of the batch it belongs to
RejectedPushFlagged ==
    in_pc # "idle" /\ in_fails > 0 => output_fell_behind

\* a pop returns the sample in the slot at the read cursor and moves the read
\* cursor one slot on
PopTakesOldest ==
    popped' # popped =>
        /\ popped' = Append(popped, storage[Slot(read, capacity)])
        /\ read' = Advance(read, capacity)
        /\ storage' = storage

\* C12: pushing capacity+1 samples into the empty ring with no pop in between
\* makes the first capacity pushes succeed and the last one fail with the
\* overrun flag raised, and the pops that follow return the first capacity
\* samples in push order.
C12_OverrunCorrectness ==
    /\ [](BurstFillsThenFails /\ RejectedPushFlagged)
    /\ [][PopTakesOldest]_vars

\* C12 witness: after playback drained a ring of two slots, three captured
\* samples were pushed with no pop in between; the third was rejected and
\* raised the flag.
C12_Witness ==
    /\ capacity = 2
    /\ burst.ok
    /\ burst.tries = << <<1, TRUE>>, <<2, TRUE>>, <<3, FALSE>> >>
    /\ dropped = <<3>>
    /\ output_fell_behind

(***************************************************************************)
(* Tick scenarios: the ring is primed, both streams play, main sleeps      *)
(* (line 168), and the devices call the callbacks in ticks.  In a tick the *)
(* input device delivers one batch and the output device asks for one;     *)
(* the two callbacks of a tick run in either order or interleaved, and a   *)
(* device starts its batch of the next tick only after the other device    *)
(* has finished its batch of this tick.  The scenarios keep the shape of   *)
(* the 48 kHz stereo set-up, a cushion of three capture batches in a ring  *)
(* of six, with MaxBatch samples in a batch.                               *)
(***************************************************************************)
MaxTicks == 12

\* the priming loop has run to its end on the ring of line 111 and no
\* callback has pushed or popped yet
Primed ==
    /\ latency_samples = latency_samples_of(latency, sample_rate, channels)
    /\ capacity = RingCapacity(latency_samples)
    /\ storage = [s \in 0..(capacity - 1) |->
                    IF s < latency_samples THEN PrimeSample ELSE Uninit]
    /\ read = 0
    /\ write = latency_samples
    /\ prime_i = latency_samples
    /\ pushed = [k \in 1..latency_samples |-> PrimeSample]
    /\ popped = <<>>
    /\ burst = [ok |-> TRUE,
                tries |-> [k \in 1..latency_samples |-> <<PrimeSample, TRUE>>]]

\* no callback has been called yet
CallbacksFresh ==
    /\ in_pc = "idle"
    /\ in_data = <<>>
    /\ in_i = 1
    /\ output_fell_behind = FALSE
    /\ out_pc = "idle"
    /\ out_data = <<>>
    /\ out_i = 1
    /\ out_val = Uninit
    /\ input_fell_behind = FALSE
    /\ n_captured = 0
    /\ n_played = 0
    /\ dropped = <<>>
    /\ overruns = 0
    /\ underruns = 0
    /\ in_fails = 0
    /\ out_fails = 0
    /\ output = <<>>

\* main sleeps with both streams playing, the cushion is three batches
TickInit ==
    /\ latency \in 0..MaxLatencyMs
    /\ sample_rate \in SampleRates
    /\ channels \in 1..MaxChannels
    /\ latency_samples_of(latency, sample_rate, channels) = 3 * MaxBatch
    /\ pc = "sleep"
    /\ input_stream = "playing"
    /\ output_stream = "playing"
    /\ Primed
    /\ CallbacksFresh

\* the batches of bin samples that input_data_fn has returned from
InTicksDone(bin) == (n_captured \div bin) - (IF in_pc = "idle" THEN 0 ELSE 1)

\* the batches of bout slots that output_data_fn has returned from
OutTicksDone(bout) == (n_played \div bout) - (IF out_pc = "idle" THEN 0 ELSE 1)

\* the input device delivers the batch of the next tick
InputTick(bin, bout) ==
    /\ n_captured \div bin < MaxTicks
    /\ OutTicksDone(bout) >= n_captured \div bin
    /\ InputBatch(bin)

\* the output device asks for the batch of the next tick
OutputTick(bin, bout) ==
    /\ n_played \div bout < MaxTicks
    /\ InTicksDone(bin) >= n_played \div bout
    /\ OutputBatch(bout)

\* what the callbacks do once called
CallbackStep ==
    \/ PushCheck
    \/ PushWrite
    \/ PushAdvance
    \/ InputReturn
    \/ PopCheck
    \/ PopRead
    \/ PopAdvance
    \/ OutputReturn

SteadyNext ==
    \/ InputTick(MaxBatch, MaxBatch)
    \/ OutputTick(MaxBatch, MaxBatch)
    \/ CallbackStep

SteadySpec == TickInit /\ [][SteadyNext]_vars

NoSignal ==
    /\ overruns = 0
    /\ underruns = 0
    /\ ~output_fell_behind
    /\ ~input_fell_behind
    /\ dropped = <<>>
    /\ \A i \in 1..Len(output) : output[i][2] = "pop"

\* C13: from the ring primed with three batches of zeros in a capacity of six
\* batches (192 samples in 384 for 2 ms at 48 kHz stereo and batches of 64),
\* ticks of one capture batch and one playback batch of the same size, in
\* either order or interleaved, produce no overrun and no underrun signal;
\* the occupancy stays within one batch of the cushion.
C13_SteadyStateNoSignal ==
    /\ latency_samples_of(2, 48000, 2) = 192
    /\ RingCapacity(192) = 384
    /\ 192 = 3 * 64
    /\ NoSignal
    /\ Occupancy(read, write, capacity) >= latency_samples - MaxBatch
    /\ Occupancy(read, write, capacity) <= latency_samples + MaxBatch

\* C13 witness: all the ticks have run, both callbacks have returned from
\* their last batch, and the cushion is back at three batches.
C13_Witness ==
    /\ n_captured = MaxTicks * MaxBatch
    /\ n_played = MaxTicks * MaxBatch
    /\ in_pc = "idle"
    /\ out_pc = "idle"
    /\ Occupancy(read, write, capacity) = latency_samples
    /\ Len(popped) = MaxTicks * MaxBatch
    /\ overruns = 0
    /\ underruns = 0

\* Drift: the input device delivers MaxBatch samples in a tick and the output
\* device asks for one slot fewer.
DriftNext ==
    \/ InputTick(MaxBatch, MaxBatch - 1)
    \/ OutputTick(MaxBatch, MaxBatch - 1)
    \/ CallbackStep

DriftSpec == TickInit /\ [][DriftNext]_vars

\* the first tick t whose capture batch of bin samples does not fit after
\* t - 1 ticks have each added bin - bout samples to a cushion of n:
\* the least t with n + (t - 1) * (bin - bout) + bin > cap
DriftTick(n, cap, bin, bout) == ((cap - n - bin) \div (bin - bout)) + 2

\* the same when the playback batch of every tick pops before the capture
\* batch pushes: the least t with n + (t - 1) * (bin - bout) - bout + bin > cap
DriftTickLate(n, cap, bin, bout) == DriftTick(n, cap + bout, bin, bout)

\* the tick of the capture batch that input_data_fn was last called with
InTick(bin) == n_captured \div bin

DriftTickHere == DriftTick(latency_samples, capacity, MaxBatch, MaxBatch - 1)

DriftTickLateHere ==
    DriftTickLate(latency_samples, capacity, MaxBatch, MaxBatch - 1)

\* no overrun before the first tick whose batch cannot fit; an overrun in
\* that tick when its capture batch meets the ring as the ticks before left
\* it; an overrun at the latest in the tick whose batch cannot fit even
\* after the playback batch of the tick; never an underrun
DriftSignals ==
    /\ InTick(MaxBatch) < DriftTickHere =>
          overruns = 0 /\ dropped = <<>> /\ ~output_fell_behind
    /\ (/\ InTicksDone(MaxBatch) = DriftTickHere
        /\ Len(popped) = (DriftTickHere - 1) * (MaxBatch - 1)) => overruns = 1
    /\ InTicksDone(MaxBatch) >= DriftTickLateHere => overruns >= 1
    /\ underruns = 0
    /\ ~input_fell_behind
    /\ \A i \in 1..Len(output) : output[i][2] = "pop"

\* a push of a capture batch raises the flag exactly when the occupancy is at
\* the capacity, and the batch prints the overrun line exactly when its flag
\* is raised
DriftSignalStep ==
    /\ (in_pc = "loop" /\ in_i <= Len(in_data) /\ in_vars' # in_vars) =>
          output_fell_behind' =
             (output_fell_behind \/ Occupancy(read, write, capacity) = capacity)
    /\ (in_pc = "loop" /\ in_pc' = "idle") =>
          overruns' = overruns + (IF output_fell_behind THEN 1 ELSE 0)
    /\ overruns' # overruns => in_pc = "loop" /\ in_pc' = "idle"

\* C14: with capture batches of MaxBatch samples and playback batches of one
\* slot fewer on every tick from the primed state (64 and 63 on 192 samples
\* in 384), the overrun is signalled by the capture batch of a tick exactly
\* when a push of that batch finds the occupancy at the capacity; that is in
\* no tick before the first whose batch cannot fit (tick 130), in that tick
\* when its capture batch runs before the playback batch of the tick, and no
\* later than the tick whose batch cannot fit even behind the playback batch
\* (tick 193); no underrun is ever signalled.
C14_DriftOverrunAtCapacity ==
    /\ DriftTick(192, 384, 64, 63) = 130
    /\ DriftTickLate(192, 384, 64, 63) = 193
    /\ []DriftSignals
    /\ [][DriftSignalStep]_vars

\* C14 witness: the capture batch of the first tick that does not fit has
\* returned before the playback of that tick popped anything; its last sample
\* was dropped and one overrun line was printed.
C14_Witness ==
    /\ InTicksDone(MaxBatch) = DriftTickHere
    /\ Len(popped) = (DriftTickHere - 1) * (MaxBatch - 1)
    /\ overruns = 1
    /\ dropped = <<DriftTickHere * MaxBatch>>
    /\ underruns = 0

\* a step of the producer handle: a priming push or a step of input_data_fn
ProducerStep ==
    \/ in_vars' # in_vars
    \/ pc = "priming" /\ prime_i' # prime_i

\* a step of the consumer handle: a step of output_data_fn
ConsumerStep == out_vars' # out_vars

\* who may change what of the ring
CursorOwnership ==
    /\ ProducerStep => read' = read
    /\ ConsumerStep => write' = write
    /\ write' # write =>
          \/ pc = "priming" /\ prime_i' = prime_i + 1
          \/ in_pc = "push_advance" /\ in_pc' = "loop"
    /\ read' # read => out_pc = "pop_advance" /\ out_pc' = "loop"
    /\ storage' # storage =>
          \/ pc = "new_ring"
          \/ pc = "priming" /\ prime_i' = prime_i + 1
          \/ in_pc = "push_write" /\ in_pc' = "push_advance"
    /\ capacity' # capacity => pc = "new_ring"

\* C15: every producer step (priming or input_data_fn) leaves the read cursor
\* unchanged and every consumer step (output_data_fn) leaves the write cursor
\* unchanged; the write cursor moves only in a push of the producer, the read
\* cursor only in a pop of the consumer, and the storage changes only when
\* the ring is built and when the producer writes a slot.
C15_CursorOwnership == [][CursorOwnership]_vars

\* C15 witness: after priming, captured samples have been pushed and samples
\* have been popped, and a push and a pop are both about to move their cursor.
C15_Witness ==
    /\ Len(pushed) > prime_i
    /\ Len(popped) > 0
    /\ in_pc = "push_advance"
    /\ out_pc = "pop_advance"

\* the steps input_data_fn takes once called
InputStep == PushCheck \/ PushWrite \/ PushAdvance \/ InputReturn

\* the steps output_data_fn takes once called
OutputStep == PopCheck \/ PopRead \/ PopAdvance \/ OutputReturn

\* A callback that was called keeps running on its own thread.  Nothing is
\* assumed about the other callback or about the devices calling again.
CallbackFairness == WF_vars(InputStep) /\ WF_vars(OutputStep)

CallbackSpec == Spec /\ CallbackFairness

\* a running callback can always take its next step, whatever the other side
\* and the ring are doing
NeverWaits ==
    /\ in_pc # "idle" => ENABLED InputStep
    /\ out_pc # "idle" => ENABLED OutputStep

\* every sample handed to input_data_fn so far has had exactly one push
\* attempt, or is still ahead of the loop; the same for the slots handed to
\* output_data_fn and pop attempts
OneAttemptEach ==
    /\ (Len(pushed) - prime_i) + Len(dropped)
          = n_captured - (Len(in_data) - (in_i - 1))
    /\ Len(output) = n_played - (Len(out_data) - (out_i - 1))
    /\ in_i \in 1..(Len(in_data) + 1)
    /\ out_i \in 1..(Len(out_data) + 1)
    /\ in_pc = "idle" => in_data = <<>>
    /\ out_pc = "idle" => out_data = <<>>

\* the loops only move forward: a failed attempt moves on to the next sample
\* or slot at once, and a callback returns only from the end of its batch
NoRetry ==
    /\ (in_pc = "loop" /\ in_vars' # in_vars) =>
          \/ in_pc' = "push_write" /\ in_i' = in_i
          \/ in_pc' = "loop" /\ in_i' = in_i + 1
                /\ dropped' = Append(dropped, in_data[in_i])
          \/ in_pc' = "idle" /\ in_i = Len(in_data) + 1
    /\ (in_pc \notin {"idle", "loop"} /\ in_vars' # in_vars) =>
          in_i' \in {in_i, in_i + 1}
    /\ (out_pc = "loop" /\ out_vars' # out_vars) =>
          \/ out_pc' = "pop_read" /\ out_i' = out_i
          \/ out_pc' = "loop" /\ out_i' = out_i + 1
                /\ output' = Append(output, <<0, "silence">>)
          \/ out_pc' = "idle" /\ out_i = Len(out_data) + 1
    /\ (out_pc \notin {"idle", "loop"} /\ out_vars' # out_vars) =>
          out_i' \in {out_i, out_i + 1}

BeforePrimed == pc \in {"config", "new_ring", "priming"}

\* a callback has been registered with its device or has run
CallbackSeen ==
    \/ input_stream # "none"
    \/ output_stream # "none"
    \/ in_pc # "idle"
    \/ out_pc # "idle"
    \/ n_captured > 0
    \/ n_played > 0
    \/ output # <<>>

\* while main is priming only zeros have been pushed and nothing has popped;
\* the streams are built on the primed ring; what is pushed after the
\* latency_samples zeros is never a priming zero
PrimedBeforeCallbacks ==
    /\ BeforePrimed => ~CallbackSeen /\ popped = <<>> /\ dropped = <<>>
    /\ BeforePrimed => pushed = [k \in 1..prime_i |-> PrimeSample]
    /\ prime_i <= latency_samples
    /\ pc = "build_input" => Primed /\ CallbacksFresh
    /\ CallbackSeen =>
          /\ prime_i = latency_samples
          /\ Len(pushed) >= latency_samples
          /\ \A k \in 1..Len(pushed) :
                pushed[k] = PrimeSample <=> k <= latency_samples

\* the priming loop is entered once, from the construction of the ring, and
\* its counter moves only in the loop
PrimingOnce ==
    /\ (pc' = "priming" /\ pc # "priming") => pc = "new_ring" /\ prime_i' = 0
    /\ pc' = "new_ring" => pc \in {"config", "new_ring"}
    /\ prime_i' # prime_i => pc = "priming" /\ prime_i' = prime_i + 1
    /\ CallbackSeen => ~BeforePrimed' /\ prime_i' = prime_i

\* C17: priming runs once and is complete before any callback is registered
\* or runs: no pop and no capture push happens while fewer than
\* latency_samples zeros have been pushed, and once a callback has been seen
\* main never primes again and no further zero is pushed.
C17_PrimingOnceBeforeCallbacks ==
    [](PrimedBeforeCallbacks) /\ [][PrimingOnce]_vars

\* C17 witness: on a ring primed with two zeros, both callbacks have run and
\* a captured sample has gone through to the output.
C17_Witness ==
    /\ latency_samples = 2
    /\ prime_i = 2
    /\ n_captured > 0
    /\ popped = <<0, 0, 1>>

\* both streams have been dropped and no callback is running
TornDown ==
    /\ input_stream = "dropped"
    /\ output_stream = "dropped"
    /\ in_pc = "idle"
    /\ out_pc = "idle"

\* after teardown nothing touches the ring, and a dropped stream's callback
\* is not called again
QuietAfterTeardown ==
    /\ TornDown =>
          /\ TornDown'
          /\ UNCHANGED <<ring_vars, pushed, popped, dropped, output,
                         n_captured, n_played>>
    /\ (input_stream = "dropped" /\ in_pc = "idle") =>
          UNCHANGED <<write, storage, in_vars, pushed>>
    /\ (output_stream = "dropped" /\ out_pc = "idle") =>
          UNCHANGED <<read, out_vars>>

\* C18: after both streams were dropped with no callback running, the ring
\* is never accessed again: no push, no pop, and no change of the storage or
\* of either cursor.
C18_NoAccessAfterTeardown ==
    /\ [](input_stream = "dropped" => in_pc = "idle")
    /\ [](output_stream = "dropped" => out_pc = "idle")
    /\ [][QuietAfterTeardown]_vars

\* C18 witness: main has dropped both streams at the end of a run in which
\* samples were captured, pushed, popped and played.
C18_Witness ==
    /\ pc = "done"
    /\ TornDown
    /\ n_captured > 0
    /\ Len(pushed) > prime_i
    /\ Len(popped) > prime_i

\* the value at place i (from 1) of a signal delayed by n samples, where the
\* k-th captured sample (from 1) has the value k
Delayed(i, n) == IF i <= n THEN 0 ELSE i - n

\* C19: in a run with no overrun and no underrun so far, the n-th value
\* written to the output (from 0) is zero for n < latency_samples and the
\* (n - latency_samples)-th captured sample otherwise.
C19_DelayIsCushion ==
    (/\ dropped = <<>>
     /\ \A i \in 1..Len(output) : output[i][2] = "pop")
    => \A i \in 1..Len(output) : output[i][1] = Delayed(i, latency_samples)

\* C19 witness: behind a cushion of two zeros, two captured samples have come
\* out of the output in their order with nothing dropped and no silence put in.
C19_Witness ==
    /\ latency_samples = 2
    /\ dropped = <<>>
    /\ output = << <<0, "pop">>, <<0, "pop">>, <<1, "pop">>, <<2, "pop">> >>

\* C20 as stated: in every configuration, latency_samples = 0 included, the
\* ring gets built and is never full and empty at the same time, so that a
\* push into the drained ring succeeds and the state in which every push and
\* every pop fails is never reached.
C20_PassThroughDelivers ==
    pc \notin {"config", "new_ring"} =>
        /\ pc # "panic_new"
        /\ ~(IsFull(read, write, capacity) /\ IsEmpty(read, write, capacity))

=============================================================================
